---- MODULE Spec2Model ----
(***************************************************************************)
(* The persistent contact cache of ReactPhysics3D                          *)
(* (src/src/engine/PersistentContactCache.cpp) and the Contact objects it  *)
(* holds (src/src/constraint/Contact.h).                                   *)
(*                                                                         *)
(* Lengths are fixed-point integers: one grid unit is 5e-7 world units, so *)
(* that the dedup tolerance (1e-6) and the drift threshold (0.02) are both *)
(* whole numbers of grid units and every product stays below 2^31.         *)
(***************************************************************************)
EXTENDS Integers, Sequences, FiniteSets, TLC

(***************************************************************************)
(* Bounds of the model and constants of the program.                       *)
(***************************************************************************)
\* Number of Contact-sized blocks of the memory pool the cache is bound to.
PoolSize == 5

MAX_CONTACTS_IN_CACHE == 4

\* Tolerance of isApproxEqual, in grid units (1e-6 world units).
EPSILON == 2

\* 0.02 world units, in grid units.
PERSISTENT_CONTACT_DIST_THRESHOLD == 40000

Blocks == 1..PoolSize
Slots == 0..(MAX_CONTACTS_IN_CACHE - 1)

\* The null pointer: the value of a slot that was never assigned.
NULL == 0

(***************************************************************************)
(* Vector3 and Transform.                                                  *)
(***************************************************************************)
VSub(a, b) == <<a[1] - b[1], a[2] - b[2], a[3] - b[3]>>

VAdd(a, b) == <<a[1] + b[1], a[2] + b[2], a[3] + b[3]>>

VScale(a, k) == <<a[1] * k, a[2] * k, a[3] * k>>

Dot(a, b) == a[1] * b[1] + a[2] * b[2] + a[3] * b[3]

Cross(a, b) ==
    <<a[2] * b[3] - a[3] * b[2],
      a[3] * b[1] - a[1] * b[3],
      a[1] * b[2] - a[2] * b[1]>>

LengthSquare(a) == Dot(a, a)

\* transform * point: rotate by the orientation matrix, then translate.
Apply(T, p) ==
    VAdd(<<Dot(T.orientation[1], p), Dot(T.orientation[2], p), Dot(T.orientation[3], p)>>,
         T.position)

approxEqual(a, b) ==
    LET difference == a - b
    IN  difference < EPSILON /\ difference > -EPSILON

isApproxEqual(v1, v2) ==
    /\ approxEqual(v1[1], v2[1])
    /\ approxEqual(v1[2], v2[2])
    /\ approxEqual(v1[3], v2[3])

(***************************************************************************)
(* Inputs: what the narrow phase hands over (ContactInfo) and the poses of *)
(* the two bodies at an update.                                            *)
(***************************************************************************)
IdentityMatrix == <<<<1, 0, 0>>, <<0, 1, 0>>, <<0, 0, 1>>>>

\* A quarter turn about the z axis.
RotZ90Matrix == <<<<0, -1, 0>>, <<1, 0, 0>>, <<0, 0, 1>>>>

Translation(v) == [orientation |-> IdentityMatrix, position |-> v]

Rotation(r) == [orientation |-> r, position |-> <<0, 0, 0>>]

\* The poses (transform1, transform2) of the two bodies at an update:
\* unmoved; body 2 moved by two units along the normal; body 2 slid by the
\* drift threshold, and by one unit more; body 1 slid by the threshold and
\* body 2 turned about the normal.
Poses ==
    { <<Translation(<<0, 0, 0>>), Translation(<<0, 0, 0>>)>>,
      <<Translation(<<0, 0, 0>>), Translation(<<0, 0, 2>>)>>,
      <<Translation(<<0, 0, 0>>), Translation(<<PERSISTENT_CONTACT_DIST_THRESHOLD, 0, 0>>)>>,
      <<Translation(<<0, 0, 0>>), Translation(<<PERSISTENT_CONTACT_DIST_THRESHOLD + 1, 0, 0>>)>>,
      <<Translation(<<PERSISTENT_CONTACT_DIST_THRESHOLD, 0, 0>>), Rotation(RotZ90Matrix)>> }

\* What the storage of a fresh Contact holds in the fields the constructor
\* is not known to set.
Unset == <<0, 0, 0>>

\* A contact of body 1's face z = 0 at point p, body 2 being depth units
\* into it along the normal.
Info(p, depth) ==
    [normal |-> <<0, 0, 1>>, penetrationDepth |-> depth, localPoint1 |-> p,
     localPoint2 |-> VSub(p, VScale(<<0, 0, 1>>, depth))]

\* Contact points on two rows of a grid of the face, and one point within
\* the dedup tolerance of the origin; body 2 is one to three units into the
\* face, and two of the points are reported at two depths.
ContactInfos ==
    { Info(<<0, 0, 0>>, 1), Info(<<0, 0, 0>>, 3), Info(<<1, 0, 0>>, 2),
      Info(<<4, 0, 0>>, 1), Info(<<4, 0, 0>>, 2), Info(<<8, 0, 0>>, 1),
      Info(<<0, 4, 0>>, 3), Info(<<4, 4, 0>>, 2) }

(***************************************************************************)
(* State.                                                                  *)
(***************************************************************************)
VARIABLES
    contacts,      \* Contact* contacts[MAX_CONTACTS_IN_CACHE]: a block or NULL
    nbContacts,    \* number of contacts in the cache
    pool,          \* the memory of each block: a Contact, or FreeBlock
    released,      \* per block, the freeObject calls of the last operation
    poolOk,        \* FALSE once freeObject was given a block not in use
    assertOk,      \* FALSE once an assert of the code failed
    last           \* the last operation called and its arguments

vars == <<contacts, nbContacts, pool, released, poolOk, assertOk, last>>

FreeBlock == [free |-> TRUE]

NoneReleased == [b \in Blocks |-> 0]

NoTransform == Translation(<<0, 0, 0>>)

\* The manifold and its allocator as one value the operations transform.
State ==
    [contacts |-> contacts, nbContacts |-> nbContacts, pool |-> pool,
     released |-> released, poolOk |-> poolOk, assertOk |-> assertOk]

Install(m) ==
    /\ contacts' = m.contacts
    /\ nbContacts' = m.nbContacts
    /\ pool' = m.pool
    /\ released' = m.released
    /\ poolOk' = m.poolOk
    /\ assertOk' = m.assertOk

(***************************************************************************)
(* Contact and the allocator.                                              *)
(***************************************************************************)
\* Contact::Contact(const ContactInfo*)
NewContact(info) ==
    [normal |-> info.normal,
     penetrationDepth |-> info.penetrationDepth,
     localPointOnBody1 |-> info.localPoint1,
     localPointOnBody2 |-> info.localPoint2,
     worldPointOnBody1 |-> Unset,
     worldPointOnBody2 |-> Unset]

FreeBlocks(m) == { b \in Blocks : m.pool[b] = FreeBlock }

\* The block the pool hands out next.
NextBlock(m) == CHOOSE b \in FreeBlocks(m) : \A o \in FreeBlocks(m) : b <= o

\* contact->Contact::~Contact(); memoryPoolContacts.freeObject(contact);
FreeObject(m, b) ==
    [m EXCEPT !.pool[b] = FreeBlock,
              !.released[b] = @ + 1,
              !.poolOk = @ /\ b \in Blocks /\ m.pool[b] # FreeBlock]

(***************************************************************************)
(* PersistentContactCache.                                                 *)
(***************************************************************************)
\* The contact a live slot points to.
ContactAt(m, i) == m.pool[m.contacts[i]]

\* assert(nbContacts == MAX_CONTACTS_IN_CACHE), the first statement of
\* getIndexOfDeepestPenetration and of getIndexToRemove.
AssertFull(m) ==
    [m EXCEPT !.assertOk = @ /\ m.nbContacts = MAX_CONTACTS_IN_CACHE]

\* removeContact taking two off nbContacts.
removeContactCountingTwice(m, index) ==
    LET asserted == [m EXCEPT !.assertOk =
                         @ /\ index >= 0 /\ index < m.nbContacts /\ m.nbContacts > 0]
        freed == FreeObject(asserted, m.contacts[index])
        moved == IF index < m.nbContacts - 1
                 THEN [freed EXCEPT !.contacts[index] = m.contacts[m.nbContacts - 1]]
                 ELSE freed
    IN  [moved EXCEPT !.nbContacts = @ - 2]

\* removeContact without the move of the last contact into the hole.
removeContactNoSwap(m, index) ==
    LET asserted == [m EXCEPT !.assertOk =
                         @ /\ index >= 0 /\ index < m.nbContacts /\ m.nbContacts > 0]
        freed == FreeObject(asserted, m.contacts[index])
    IN  [freed EXCEPT !.nbContacts = @ - 1]

\* void PersistentContactCache::removeContact(int index)
removeContact(m, index) ==
    LET asserted == [m EXCEPT !.assertOk =
                         @ /\ index >= 0 /\ index < m.nbContacts /\ m.nbContacts > 0]
        freed == FreeObject(asserted, m.contacts[index])
        \* If we don't remove the last index
        moved == IF index < m.nbContacts - 1
                 THEN [freed EXCEPT !.contacts[index] = m.contacts[m.nbContacts - 1]]
                 ELSE freed
    IN  [moved EXCEPT !.nbContacts = @ - 1]

\* The loop of getIndexOfDeepestPenetration from slot i on.
RECURSIVE DeepestFrom(_, _, _, _)
DeepestFrom(m, i, maxPenetrationDepth, indexMaxPenetrationDepth) ==
    IF i >= m.nbContacts
    THEN indexMaxPenetrationDepth
    ELSE IF ContactAt(m, i).penetrationDepth > maxPenetrationDepth
         THEN DeepestFrom(m, i + 1, ContactAt(m, i).penetrationDepth, i)
         ELSE DeepestFrom(m, i + 1, maxPenetrationDepth, indexMaxPenetrationDepth)

\* The loop without the update of maxPenetrationDepth: every contact deeper
\* than the new one takes the index.
RECURSIVE DeeperFrom(_, _, _, _)
DeeperFrom(m, i, maxPenetrationDepth, indexMaxPenetrationDepth) ==
    IF i >= m.nbContacts
    THEN indexMaxPenetrationDepth
    ELSE IF ContactAt(m, i).penetrationDepth > maxPenetrationDepth
         THEN DeeperFrom(m, i + 1, maxPenetrationDepth, i)
         ELSE DeeperFrom(m, i + 1, maxPenetrationDepth, indexMaxPenetrationDepth)

getIndexOfLastDeeper(m, newContact) ==
    DeeperFrom(m, 0, m.pool[newContact].penetrationDepth, -1)

\* The loop comparing with >=: a contact as deep as the new one is selected.
RECURSIVE DeepestOrEqualFrom(_, _, _, _)
DeepestOrEqualFrom(m, i, maxPenetrationDepth, indexMaxPenetrationDepth) ==
    IF i >= m.nbContacts
    THEN indexMaxPenetrationDepth
    ELSE IF ContactAt(m, i).penetrationDepth >= maxPenetrationDepth
         THEN DeepestOrEqualFrom(m, i + 1, ContactAt(m, i).penetrationDepth, i)
         ELSE DeepestOrEqualFrom(m, i + 1, maxPenetrationDepth, indexMaxPenetrationDepth)

getIndexOfDeepestOrEqual(m, newContact) ==
    DeepestOrEqualFrom(m, 0, m.pool[newContact].penetrationDepth, -1)

\* int PersistentContactCache::getIndexOfDeepestPenetration(Contact* newContact) const
getIndexOfDeepestPenetration(m, newContact) ==
    DeepestFrom(m, 0, m.pool[newContact].penetrationDepth, -1)

\* getMaxArea comparing with <=: of equal areas the later one wins.
getMaxAreaLaterWins(area0, area1, area2, area3) ==
    IF area0 <= area1
    THEN IF area1 <= area2
         THEN IF area2 <= area3 THEN 3 ELSE 2
         ELSE IF area1 <= area3 THEN 3 ELSE 1
    ELSE IF area0 <= area2
         THEN IF area2 <= area3 THEN 3 ELSE 2
         ELSE IF area0 <= area3 THEN 3 ELSE 0

\* int PersistentContactCache::getMaxArea(double area0, ..., double area3) const
getMaxArea(area0, area1, area2, area3) ==
    IF area0 < area1
    THEN IF area1 < area2
         THEN IF area2 < area3 THEN 3 ELSE 2
         ELSE IF area1 < area3 THEN 3 ELSE 1
    ELSE IF area0 < area2
         THEN IF area2 < area3 THEN 3 ELSE 2
         ELSE IF area0 < area3 THEN 3 ELSE 0

\* The squared area spanned by newPoint - p[a] and p[c] - p[b].
Area(m, newPoint, a, b, c) ==
    LET vector1 == VSub(newPoint, ContactAt(m, a).localPointOnBody1)
        vector2 == VSub(ContactAt(m, c).localPointOnBody1,
                        ContactAt(m, b).localPointOnBody1)
    IN  LengthSquare(Cross(vector1, vector2))

\* getIndexToRemove computing the four areas whatever indexMaxPenetration is.
getIndexToRemoveOfAll(m, indexMaxPenetration, newPoint) ==
    getMaxArea(Area(m, newPoint, 1, 2, 3), Area(m, newPoint, 0, 2, 3),
               Area(m, newPoint, 0, 1, 3), Area(m, newPoint, 0, 1, 2))

\* int PersistentContactCache::getIndexToRemove(int indexMaxPenetration,
\*                                              const Vector3& newPoint) const
getIndexToRemove(m, indexMaxPenetration, newPoint) ==
    LET area0 == IF indexMaxPenetration # 0 THEN Area(m, newPoint, 1, 2, 3) ELSE 0
        area1 == IF indexMaxPenetration # 1 THEN Area(m, newPoint, 0, 2, 3) ELSE 0
        area2 == IF indexMaxPenetration # 2 THEN Area(m, newPoint, 0, 1, 3) ELSE 0
        area3 == IF indexMaxPenetration # 3 THEN Area(m, newPoint, 0, 1, 2) ELSE 0
    IN  getMaxArea(area0, area1, area2, area3)

\* The dedup scan stopping one slot short of the last live one.
AlreadyInCacheButLast(m, contact) ==
    \E i \in Slots :
        /\ i < m.nbContacts - 1
        /\ isApproxEqual(m.pool[contact].localPointOnBody1,
                         ContactAt(m, i).localPointOnBody1)

\* The dedup scan of addContact: the new point corresponds to a contact
\* point already in the cache.
AlreadyInCache(m, contact) ==
    \E i \in Slots :
        /\ i < m.nbContacts
        /\ isApproxEqual(m.pool[contact].localPointOnBody1,
                         ContactAt(m, i).localPointOnBody1)

\* Insert with the capacity test written nbContacts > MAX_CONTACTS_IN_CACHE:
\* room is never made.
InsertBeyondCapacity(m, contact) ==
    [m EXCEPT !.contacts = [i \in DOMAIN m.contacts \cup {m.nbContacts} |->
                                IF i = m.nbContacts THEN contact ELSE m.contacts[i]],
              !.nbContacts = @ + 1]

\* Insert without nbContacts++.
InsertWithoutCount(m, contact) ==
    LET full == m.nbContacts = MAX_CONTACTS_IN_CACHE
        indexMaxPenetration == getIndexOfDeepestPenetration(m, contact)
        indexToRemove ==
            getIndexToRemove(m, indexMaxPenetration, m.pool[contact].localPointOnBody1)
        room == IF full THEN removeContact(AssertFull(m), indexToRemove) ELSE m
        indexNewContact == IF full THEN indexToRemove ELSE m.nbContacts
    IN  [room EXCEPT !.contacts[indexNewContact] = contact]

\* Insert without indexNewContact = indexToRemove: the new contact goes to
\* slot nbContacts, that is to the last slot once room was made.
InsertAtEnd(m, contact) ==
    LET full == m.nbContacts = MAX_CONTACTS_IN_CACHE
        indexMaxPenetration == getIndexOfDeepestPenetration(m, contact)
        indexToRemove ==
            getIndexToRemove(m, indexMaxPenetration, m.pool[contact].localPointOnBody1)
        room == IF full THEN removeContact(AssertFull(m), indexToRemove) ELSE m
    IN  [room EXCEPT !.contacts[room.nbContacts] = contact,
                     !.nbContacts = @ + 1]

\* The part of addContact after the dedup scan: make room if the cache is
\* full, then store the pointer.
Insert(m, contact) ==
    LET full == m.nbContacts = MAX_CONTACTS_IN_CACHE
        indexMaxPenetration == getIndexOfDeepestPenetration(m, contact)
        indexToRemove ==
            getIndexToRemove(m, indexMaxPenetration, m.pool[contact].localPointOnBody1)
        room == IF full THEN removeContact(AssertFull(m), indexToRemove) ELSE m
        indexNewContact == IF full THEN indexToRemove ELSE m.nbContacts
    IN  [room EXCEPT !.contacts[indexNewContact] = contact,
                     !.nbContacts = @ + 1]

\* addContact comparing the points on body 2 in its dedup scan.
addContactByPoint2(m, contact) ==
    IF \E i \in Slots :
           /\ i < m.nbContacts
           /\ isApproxEqual(m.pool[contact].localPointOnBody2,
                            ContactAt(m, i).localPointOnBody2)
    THEN FreeObject(m, contact)
    ELSE Insert(m, contact)

\* addContact making room in a full cache before its dedup scan.
addContactEvictingFirst(m, contact) ==
    IF m.nbContacts = MAX_CONTACTS_IN_CACHE
    THEN Insert(m, contact)
    ELSE IF AlreadyInCache(m, contact)
         THEN FreeObject(m, contact)
         ELSE Insert(m, contact)

\* void PersistentContactCache::addContact(Contact* contact)
addContact(m, contact) ==
    IF AlreadyInCache(m, contact)
    THEN FreeObject(m, contact)
    ELSE Insert(m, contact)

\* The refresh placing both world points with the transform of body 1.
RefreshedByTransform1(c, transform1, transform2) ==
    LET w1 == Apply(transform1, c.localPointOnBody1)
        w2 == Apply(transform1, c.localPointOnBody2)
    IN  [c EXCEPT !.worldPointOnBody1 = w1,
                  !.worldPointOnBody2 = w2,
                  !.penetrationDepth = Dot(VSub(w1, w2), c.normal)]

\* The refresh also recomputing the normal from the refreshed world points.
RefreshedWithNormal(c, transform1, transform2) ==
    LET w1 == Apply(transform1, c.localPointOnBody1)
        w2 == Apply(transform2, c.localPointOnBody2)
    IN  [c EXCEPT !.worldPointOnBody1 = w1,
                  !.worldPointOnBody2 = w2,
                  !.normal = VSub(w1, w2),
                  !.penetrationDepth = Dot(VSub(w1, w2), c.normal)]

\* The first loop of update: world coordinates and penetration depth of
\* slots i..nbContacts-1 are recomputed from the transforms.
Refreshed(c, transform1, transform2) ==
    LET w1 == Apply(transform1, c.localPointOnBody1)
        w2 == Apply(transform2, c.localPointOnBody2)
    IN  [c EXCEPT !.worldPointOnBody1 = w1,
                  !.worldPointOnBody2 = w2,
                  !.penetrationDepth = Dot(VSub(w1, w2), c.normal)]

RECURSIVE RefreshFrom(_, _, _, _)
RefreshFrom(m, i, transform1, transform2) ==
    IF i >= m.nbContacts
    THEN m
    ELSE RefreshFrom([m EXCEPT !.pool[m.contacts[i]] =
                                   Refreshed(@, transform1, transform2)],
                     i + 1, transform1, transform2)

\* The distance test written >=: a contact at the threshold is removed.
TooFarAtThreshold(c) ==
    LET projOfPoint1 == VSub(c.worldPointOnBody1, VScale(c.normal, c.penetrationDepth))
        projDifference == VSub(c.worldPointOnBody2, projOfPoint1)
    IN  LengthSquare(projDifference) >=
            PERSISTENT_CONTACT_DIST_THRESHOLD * PERSISTENT_CONTACT_DIST_THRESHOLD

\* The distance test of update's second loop, for a contact of positive depth.
TooFar(c) ==
    LET projOfPoint1 == VSub(c.worldPointOnBody1, VScale(c.normal, c.penetrationDepth))
        projDifference == VSub(c.worldPointOnBody2, projOfPoint1)
    IN  LengthSquare(projDifference) >
            PERSISTENT_CONTACT_DIST_THRESHOLD * PERSISTENT_CONTACT_DIST_THRESHOLD

\* The sweep without its distance test.
StaleByDepthOnly(c) == c.penetrationDepth <= 0

\* The depth test written < 0.0: a contact of depth zero is kept.
StaleBelowZero(c) ==
    IF c.penetrationDepth < 0 THEN TRUE ELSE TooFar(c)

\* Whether update's second loop removes a contact.
Stale(c) ==
    IF c.penetrationDepth <= 0 THEN TRUE ELSE TooFar(c)

\* The sweep run from the first slot to the last: the contact a removal
\* moves into slot j is stepped over.
RECURSIVE SweepUp(_, _)
SweepUp(m, j) ==
    IF j >= m.nbContacts
    THEN m
    ELSE SweepUp(IF Stale(ContactAt(m, j)) THEN removeContact(m, j) ELSE m, j + 1)

SweepFromFirst(m, i) == SweepUp(m, 0)

\* The second loop of update, from slot i down to slot 0.
RECURSIVE SweepFrom(_, _)
SweepFrom(m, i) ==
    IF i < 0
    THEN m
    ELSE LET asserted == [m EXCEPT !.assertOk = @ /\ i >= 0 /\ i < m.nbContacts]
         IN  SweepFrom(IF Stale(ContactAt(asserted, i))
                       THEN removeContact(asserted, i)
                       ELSE asserted,
                       i - 1)

\* void PersistentContactCache::update(const Transform&, const Transform&)
update(m, transform1, transform2) ==
    IF m.nbContacts = 0
    THEN m
    ELSE LET refreshed == RefreshFrom(m, 0, transform1, transform2)
         IN  SweepFrom(refreshed, refreshed.nbContacts - 1)

\* The loop of clear from slot i on.
RECURSIVE ClearFrom(_, _)
ClearFrom(m, i) ==
    IF i >= m.nbContacts
    THEN m
    ELSE ClearFrom(FreeObject(m, m.contacts[i]), i + 1)

\* clear starting its loop at slot 1.
clearFromSlot1(m) == [ClearFrom(m, 1) EXCEPT !.nbContacts = 0]

\* void PersistentContactCache::clear()
clear(m) == [ClearFrom(m, 0) EXCEPT !.nbContacts = 0]

\* A destructor that leaves the contacts of the cache where they are.
destructorWithoutClear(m) == m

\* PersistentContactCache::~PersistentContactCache()
destructor(m) == clear(m)

(***************************************************************************)
(* The cache after construction, and the calls made on it.                 *)
(***************************************************************************)
\* PersistentContactCache::PersistentContactCache(body1, body2, pool)
Init ==
    /\ contacts = [i \in Slots |-> NULL]
    /\ nbContacts = 0
    /\ pool = [b \in Blocks |-> FreeBlock]
    /\ released = NoneReleased
    /\ poolOk = TRUE
    /\ assertOk = TRUE
    /\ last = [op |-> "new", contact |-> NULL,
               transform1 |-> NoTransform, transform2 |-> NoTransform]

\* The state an operation starts from: the release log is that of one call.
Entry == [State EXCEPT !.released = NoneReleased]

\* Where the pool places a Contact is of no consequence, and a slot at or
\* beyond nbContacts is written before it is read again.  Between two calls
\* the state is therefore kept up to a renaming of the blocks: the contact of
\* live slot i is in block i + 1 and the unused slots are NULL.  The release
\* log keeps the addresses the call was entered with.
Renamed(m) ==
    [m EXCEPT !.contacts = [i \in Slots |-> IF i < m.nbContacts THEN i + 1 ELSE NULL],
              !.pool = [b \in Blocks |->
                            IF /\ b - 1 \in Slots
                               /\ b - 1 < m.nbContacts
                               /\ m.contacts[b - 1] \in Blocks
                            THEN m.pool[m.contacts[b - 1]]
                            ELSE FreeBlock]]

\* The block of the Contact the next addContact is given.
NewBlock == NextBlock(State)

\* The state addContact is entered in: the Contact built from info is in
\* NewBlock.
Built(info) == [Entry EXCEPT !.pool[NewBlock] = NewContact(info)]

\* A Contact is constructed in a block of the pool and handed to addContact.
AddContact(info) ==
    /\ last.op # "delete"
    /\ FreeBlocks(State) # {}
    /\ Install(Renamed(addContact(Built(info), NewBlock)))
    /\ last' = [op |-> "addContact", contact |-> NewBlock,
                transform1 |-> NoTransform, transform2 |-> NoTransform]

Update(transform1, transform2) ==
    /\ last.op # "delete"
    /\ Install(Renamed(update(Entry, transform1, transform2)))
    /\ last' = [op |-> "update", contact |-> NULL,
                transform1 |-> transform1, transform2 |-> transform2]

Clear ==
    /\ last.op # "delete"
    /\ Install(Renamed(clear(Entry)))
    /\ last' = [op |-> "clear", contact |-> NULL,
                transform1 |-> NoTransform, transform2 |-> NoTransform]

\* The cache is destroyed: no operation is called on it afterwards.
Destroy ==
    /\ last.op # "delete"
    /\ Install(Renamed(destructor(Entry)))
    /\ last' = [op |-> "delete", contact |-> NULL,
                transform1 |-> NoTransform, transform2 |-> NoTransform]

Next ==
    \/ \E info \in ContactInfos : AddContact(info)
    \/ \E pose \in Poses : Update(pose[1], pose[2])
    \/ Clear
    \/ Destroy

Spec == Init /\ [][Next]_vars

(***************************************************************************)
(* Contact: the friction vectors.  The components of a direction are held  *)
(* in units of 1 / UnitScale, so that unit vectors off the axes exist; a   *)
(* product of two directions is brought back to that unit.                 *)
(***************************************************************************)
UnitScale == 5

UnitVectors ==
    { v \in (-UnitScale..UnitScale) \X (-UnitScale..UnitScale) \X (-UnitScale..UnitScale) :
          LengthSquare(v) = UnitScale * UnitScale }

\* Vector3::cross on two directions.
UnitCross(a, b) ==
    LET c == Cross(a, b)
    IN  <<c[1] \div UnitScale, c[2] \div UnitScale, c[3] \div UnitScale>>

\* Vector3::getOneOrthogonalVector: the unit vectors it may return.
getOneOrthogonalVector(v) == { w \in UnitVectors : Dot(v, w) = 0 }

\* computeFrictionVectors with the operands of the cross product exchanged.
computeFrictionVectorsReversed(normal, vector1) ==
    <<vector1, UnitCross(vector1, normal)>>

\* inline void Contact::computeFrictionVectors(): frictionVectors, given the
\* vector getOneOrthogonalVector returned.
computeFrictionVectors(normal, vector1) ==
    <<vector1, UnitCross(normal, vector1)>>

\* A Contact with the given normal computes its friction vectors.
ComputeFrictionVectors(normal) ==
    /\ \E vector1 \in getOneOrthogonalVector(normal) :
           last' = [op |-> "computeFrictionVectors", normal |-> normal,
                    frictionVectors |-> computeFrictionVectors(normal, vector1)]
    /\ UNCHANGED <<contacts, nbContacts, pool, released, poolOk, assertOk>>

NextFriction == \E normal \in UnitVectors : ComputeFrictionVectors(normal)

SpecFriction == Init /\ [][NextFriction]_vars

(***************************************************************************)
(* getMaxArea on its own, over every order four areas can be in.           *)
(***************************************************************************)
MaxArea == 3

Areas == 0..MaxArea

GetMaxArea(area0, area1, area2, area3) ==
    /\ last' = [op |-> "getMaxArea", areas |-> <<area0, area1, area2, area3>>,
                index |-> getMaxArea(area0, area1, area2, area3)]
    /\ UNCHANGED <<contacts, nbContacts, pool, released, poolOk, assertOk>>

NextMaxArea ==
    \E area0 \in Areas, area1 \in Areas, area2 \in Areas, area3 \in Areas :
        GetMaxArea(area0, area1, area2, area3)

SpecMaxArea == Init /\ [][NextMaxArea]_vars

(***************************************************************************)
(* Properties.                                                             *)
(***************************************************************************)
LiveSlots == { i \in Slots : i < nbContacts }

\* The contact live slot i points to.
Live(i) == pool[contacts[i]]

\* Blocks the last call gave back to the pool.
ReleasedBlocks == { b \in Blocks : released[b] > 0 }

\* The new point corresponds, within the tolerance, to one of a live contact.
IsDuplicate(info) ==
    \E i \in LiveSlots :
        isApproxEqual(info.localPoint1, Live(i).localPointOnBody1)

\* C1: between calls, whatever addContact, update and clear calls were made,
\* 0 <= nbContacts <= MAX_CONTACTS_IN_CACHE.
C1_NbContactsInRange ==
    nbContacts >= 0 /\ nbContacts <= MAX_CONTACTS_IN_CACHE

\* A contact was added to a full cache, which is full again afterwards.
C1_Witness ==
    /\ last.op = "addContact"
    /\ nbContacts = MAX_CONTACTS_IN_CACHE
    /\ released[last.contact] = 0
    /\ ReleasedBlocks # {}

\* C2: adding to a full cache a contact that duplicates none of the live
\* ones releases exactly one contact, once; it is one of the four cached
\* contacts, not the new one, and it is not the one at the index
\* getIndexOfDeepestPenetration returns, when that index is not -1.
C2_EvictionSparesDeepest ==
    [][\A info \in ContactInfos :
          ( /\ nbContacts = MAX_CONTACTS_IN_CACHE
            /\ ~IsDuplicate(info)
            /\ AddContact(info) )
          => LET indexMaxPenetration == getIndexOfDeepestPenetration(Built(info), NewBlock)
             IN  \E i \in Slots :
                    /\ released' = [NoneReleased EXCEPT ![contacts[i]] = 1]
                    /\ contacts[i] # NewBlock
                    /\ i # indexMaxPenetration]_vars

\* C3: when update has returned, every contact of the cache has a
\* penetration depth >= 0, as its world points and normal give it, and its
\* two world points are no further apart in the plane orthogonal to the
\* normal than PERSISTENT_CONTACT_DIST_THRESHOLD.
C3_SurvivorsAreFresh ==
    last.op = "update" =>
        \A i \in LiveSlots :
            LET c == Live(i)
                depth == Dot(VSub(c.worldPointOnBody1, c.worldPointOnBody2), c.normal)
                proj == VSub(c.worldPointOnBody1, VScale(c.normal, depth))
            IN  /\ depth >= 0
                /\ c.penetrationDepth >= 0
                /\ LengthSquare(VSub(c.worldPointOnBody2, proj)) <=
                       PERSISTENT_CONTACT_DIST_THRESHOLD * PERSISTENT_CONTACT_DIST_THRESHOLD

\* An update removed some contacts and kept others.
C3_Witness ==
    /\ last.op = "update"
    /\ nbContacts >= 2
    /\ Cardinality(ReleasedBlocks) >= 2

\* C4: addContact given a contact whose point on body 1 is, within the
\* tolerance, that of a live contact releases that contact once and nothing
\* else, and leaves nbContacts, the slots and every cached contact as they
\* were: adding a point and then a duplicate of it gives the state the first
\* add gave.
C4_DuplicateIsDiscarded ==
    [][\A info \in ContactInfos :
          (IsDuplicate(info) /\ AddContact(info))
          => /\ released' = [NoneReleased EXCEPT ![NewBlock] = 1]
             /\ nbContacts' = nbContacts
             /\ contacts' = contacts
             /\ pool' = pool]_vars

\* A duplicate was handed to a cache holding contacts, and was released.
C4_Witness ==
    /\ last.op = "addContact"
    /\ nbContacts >= 1
    /\ released[last.contact] = 1

\* C5: between calls, no two live slots hold contacts whose points on body 1
\* are equal within the dedup tolerance.
C5_NoTwoLiveAlike ==
    \A i \in LiveSlots, j \in LiveSlots :
        i # j => ~isApproxEqual(Live(i).localPointOnBody1, Live(j).localPointOnBody1)

\* A contact was added to a full cache holding a contact an earlier update
\* had refreshed: one of the four was evicted for it.
C5_Witness ==
    /\ last.op = "addContact"
    /\ nbContacts = MAX_CONTACTS_IN_CACHE
    /\ released[last.contact] = 0
    /\ Cardinality(ReleasedBlocks) = 1
    /\ \E i \in LiveSlots : Live(i).worldPointOnBody1 # Unset

\* C6: clear releases each contact of the cache once and nothing else, and
\* leaves nbContacts = 0; a clear right after it releases nothing.
C6_ClearReleasesAll ==
    [][last'.op = "clear"
       => /\ \A b \in Blocks :
                released'[b] = Cardinality({ i \in LiveSlots : contacts[i] = b })
          /\ nbContacts' = 0
          /\ (last.op = "clear" => released' = NoneReleased)]_vars

\* A full cache was cleared.
C6_Witness ==
    /\ last.op = "clear"
    /\ nbContacts = 0
    /\ Cardinality(ReleasedBlocks) = MAX_CONTACTS_IN_CACHE

\* The depth update recomputes for a contact under the poses given.
RecomputedDepth(c, transform1, transform2) ==
    Dot(VSub(Apply(transform1, c.localPointOnBody1),
             Apply(transform2, c.localPointOnBody2)),
        c.normal)

\* C7: a contact whose depth, recomputed by update from the new transforms,
\* is negative or zero is released by that update, whatever its depth was
\* and whichever slot it is in.
C7_SeparatedIsRemoved ==
    [][last'.op = "update"
       => \A i \in LiveSlots :
              RecomputedDepth(Live(i), last'.transform1, last'.transform2) <= 0
              => released'[contacts[i]] = 1]_vars

\* An update moved body 2 away: contacts were removed, one was kept.
C7_Witness ==
    /\ last.op = "update"
    /\ last.transform2.position = <<0, 0, 2>>
    /\ nbContacts >= 1
    /\ ReleasedBlocks # {}

\* C8: update called again with the same transforms removes nothing and
\* leaves the cache as the first call left it.
C8_UpdateIdempotent ==
    [][( /\ last.op = "update"
         /\ last'.op = "update"
         /\ last'.transform1 = last.transform1
         /\ last'.transform2 = last.transform2 )
       => /\ contacts' = contacts
          /\ nbContacts' = nbContacts
          /\ pool' = pool
          /\ released' = NoneReleased]_vars

\* An update under which body 1 has moved and body 2 has turned removed one
\* contact and kept another.
C8_Witness ==
    /\ last.op = "update"
    /\ last.transform2.orientation = RotZ90Matrix
    /\ nbContacts >= 1
    /\ ReleasedBlocks # {}

\* C9: when update(transform1, transform2) has returned, every contact of
\* the cache has worldPointOnBody1 = transform1 * localPointOnBody1,
\* worldPointOnBody2 = transform2 * localPointOnBody2 and
\* penetrationDepth = (worldPointOnBody1 - worldPointOnBody2) . normal.
C9_WorldPointsRefreshed ==
    last.op = "update" =>
        \A i \in LiveSlots :
            LET c == Live(i)
            IN  /\ c.worldPointOnBody1 = Apply(last.transform1, c.localPointOnBody1)
                /\ c.worldPointOnBody2 = Apply(last.transform2, c.localPointOnBody2)
                /\ c.penetrationDepth =
                       Dot(VSub(c.worldPointOnBody1, c.worldPointOnBody2), c.normal)

\* An update with body 2 slid by the threshold kept a full cache.
C9_Witness ==
    /\ last.op = "update"
    /\ last.transform2.position = <<PERSISTENT_CONTACT_DIST_THRESHOLD, 0, 0>>
    /\ nbContacts = MAX_CONTACTS_IN_CACHE

\* The fields of a Contact declared const.
ConstFields(c) == <<c.normal, c.localPointOnBody1, c.localPointOnBody2>>

\* C10: no call changes the normal or a local point of a contact that stays
\* in the cache: the contacts of the cache after a call are those it held
\* and the call did not release, and the one addContact stored, each with
\* the normal and the local points it had.
C10_ConstFieldsFrozen ==
    [][LET kept == { ConstFields(Live(i)) :
                         i \in { j \in LiveSlots : released'[contacts[j]] = 0 } }
           after == { ConstFields(pool'[contacts'[i]]) :
                          i \in { j \in Slots : j < nbContacts' } }
       IN  /\ last'.op \in {"update", "clear"} => after = kept
           /\ \A info \in ContactInfos :
                  AddContact(info)
                  => after = kept \cup
                         (IF released'[NewBlock] = 0
                          THEN {ConstFields(NewContact(info))}
                          ELSE {})
           /\ Cardinality(after) = nbContacts']_vars

\* An update under which body 2 had moved removed contacts and kept two or
\* more, whose world points on body 2 are no longer the local ones.
C10_Witness ==
    /\ last.op = "update"
    /\ nbContacts >= 2
    /\ ReleasedBlocks # {}
    /\ \A i \in LiveSlots : Live(i).worldPointOnBody2 # Live(i).localPointOnBody2

\* C11: removeContact(index) with 0 <= index < nbContacts releases
\* contacts[index] once and nothing else and takes one off nbContacts; when
\* index is not the last live slot, slot index then points to the contact slot
\* nbContacts - 1 pointed to; no other slot changes, and no other contact.
C11_RemoveIsSwapRemove ==
    \A index \in LiveSlots :
        LET after == removeContact(Entry, index)
        IN  /\ after.released = [NoneReleased EXCEPT ![contacts[index]] = 1]
            /\ after.nbContacts = nbContacts - 1
            /\ after.assertOk = assertOk
            /\ after.poolOk = poolOk
            /\ index < nbContacts - 1
                   => after.contacts[index] = contacts[nbContacts - 1]
            /\ index = nbContacts - 1
                   => after.contacts[index] = contacts[index]
            /\ \A j \in Slots \ {index} : after.contacts[j] = contacts[j]
            /\ \A b \in Blocks \ {contacts[index]} : after.pool[b] = pool[b]

\* An update removed one contact that was not in the last live slot: the
\* contact of the last live slot was moved into its place.
C11_Witness ==
    /\ last.op = "update"
    /\ \E b \in Blocks :
           /\ released = [NoneReleased EXCEPT ![b] = 1]
           /\ b <= nbContacts

\* C12: the friction vectors computeFrictionVectors gives a Contact, t1 a
\* unit vector orthogonal to the unit normal and t2 = normal x t1, satisfy
\* t1 x t2 = normal.
C12_FrictionFrameRightHanded ==
    last.op = "computeFrictionVectors" =>
        LET t1 == last.frictionVectors[1]
            t2 == last.frictionVectors[2]
        IN  /\ LengthSquare(t1) = UnitScale * UnitScale
            /\ Dot(t1, last.normal) = 0
            /\ UnitCross(t1, t2) = last.normal

\* The friction vectors of a Contact whose normal is on no axis, the first
\* of them on no axis either.
C12_Witness ==
    /\ last.op = "computeFrictionVectors"
    /\ last.normal = <<3, 4, 0>>
    /\ last.frictionVectors[1] = <<4, -3, 0>>
    /\ last.frictionVectors[2] = <<0, 0, -5>>

\* The indices, 0..3, of the areas that are maximal among the four given
\* to the last getMaxArea.
MaximalIndices ==
    { i \in Slots : \A j \in Slots : last.areas[j + 1] <= last.areas[i + 1] }

\* The least and the greatest of a set of indices.
Lowest(S) == CHOOSE i \in S : \A j \in S : i <= j
Highest(S) == CHOOSE i \in S : \A j \in S : j <= i

\* C13, as stated: when two or more of the areas are equal and maximal,
\* getMaxArea returns the highest of the tied indices.
C13_TiesToHighest ==
    (last.op = "getMaxArea" /\ Cardinality(MaximalIndices) >= 2)
        => last.index = Highest(MaximalIndices)

\* C13, amended: when two or more of the areas are equal and maximal,
\* getMaxArea returns the lowest of the tied indices.
C13_TiesToLowest ==
    (last.op = "getMaxArea" /\ Cardinality(MaximalIndices) >= 2)
        => last.index = Lowest(MaximalIndices)

\* getMaxArea was given four areas of which those of indices 1 and 3 are
\* equal and maximal, and returned 1.
C13_Witness ==
    /\ last.op = "getMaxArea"
    /\ MaximalIndices = {1, 3}
    /\ last.index = 1

\* The slots of the contacts deeper than the one info describes.
Deeper(info) ==
    { i \in LiveSlots : Live(i).penetrationDepth > info.penetrationDepth }

\* Of those, the slots of the deepest contacts.
Deepest(info) ==
    { i \in Deeper(info) :
          \A j \in Deeper(info) : Live(j).penetrationDepth <= Live(i).penetrationDepth }

\* C14, as stated: on a full cache, when several contacts are deeper than
\* the new one, getIndexOfDeepestPenetration returns the index of the first
\* of them in the order of the slots.
C14_FirstDeeper ==
    \A info \in ContactInfos :
        ( /\ nbContacts = MAX_CONTACTS_IN_CACHE
          /\ ~IsDuplicate(info)
          /\ Cardinality(Deeper(info)) >= 2 )
        => getIndexOfDeepestPenetration(Built(info), NewBlock) = Lowest(Deeper(info))

\* C14, amended: on a full cache, when several contacts are deeper than the
\* new one, getIndexOfDeepestPenetration returns the index of the deepest
\* of them, the first in the order of the slots among equally deep ones.
C14_FirstDeepest ==
    \A info \in ContactInfos :
        ( /\ nbContacts = MAX_CONTACTS_IN_CACHE
          /\ ~IsDuplicate(info)
          /\ Cardinality(Deeper(info)) >= 2 )
        => getIndexOfDeepestPenetration(Built(info), NewBlock) = Lowest(Deepest(info))

\* A cache an eviction left full, to which a contact can be added that
\* several contacts are deeper than, the first of them not the deepest,
\* and the deepest at two slots.
C14_Witness ==
    /\ last.op = "addContact"
    /\ nbContacts = MAX_CONTACTS_IN_CACHE
    /\ ReleasedBlocks # {} /\ released[last.contact] = 0
    /\ \E info \in ContactInfos :
           /\ ~IsDuplicate(info)
           /\ Cardinality(Deeper(info)) >= 3
           /\ Cardinality(Deepest(info)) >= 2
           /\ Lowest(Deeper(info)) \notin Deepest(info)

\* The four areas of the eviction search for a new contact at info's point,
\* none left out: area k is that of the quadrilateral without slot k.
TrueAreas(info) ==
    LET p(i) == Live(i).localPointOnBody1
        new == info.localPoint1
    IN  [k \in Slots |->
            CASE k = 0 -> LengthSquare(Cross(VSub(new, p(1)), VSub(p(3), p(2))))
              [] k = 1 -> LengthSquare(Cross(VSub(new, p(0)), VSub(p(3), p(2))))
              [] k = 2 -> LengthSquare(Cross(VSub(new, p(0)), VSub(p(3), p(1))))
              [] k = 3 -> LengthSquare(Cross(VSub(new, p(0)), VSub(p(2), p(1))))]

\* C15: on a full cache none of whose contacts is deeper than the new one,
\* one as deep as it included, getIndexOfDeepestPenetration returns -1 and
\* the contact addContact evicts is one whose area is maximal among the
\* four areas, none of them left out.
C15_NoneDeeperNoneProtected ==
    [][\A info \in ContactInfos :
          ( /\ nbContacts = MAX_CONTACTS_IN_CACHE
            /\ ~IsDuplicate(info)
            /\ Deeper(info) = {}
            /\ AddContact(info) )
          => /\ getIndexOfDeepestPenetration(Built(info), NewBlock) = -1
             /\ \E k \in Slots :
                    /\ released' = [NoneReleased EXCEPT ![contacts[k]] = 1]
                    /\ \A j \in Slots : TrueAreas(info)[j] <= TrueAreas(info)[k]]_vars

\* A cache an eviction left full, to which a contact can be added that is
\* as deep as one of the cache and that none is deeper than, the four areas
\* not all equal.
C15_Witness ==
    /\ last.op = "addContact"
    /\ nbContacts = MAX_CONTACTS_IN_CACHE
    /\ ReleasedBlocks # {} /\ released[last.contact] = 0
    /\ \E info \in ContactInfos :
           /\ ~IsDuplicate(info)
           /\ Deeper(info) = {}
           /\ \E i \in LiveSlots : Live(i).penetrationDepth = info.penetrationDepth
           /\ \E j, k \in Slots : TrueAreas(info)[j] < TrueAreas(info)[k]

\* The score of slot k in the eviction search: its area, or 0 when k is the
\* index left out.
Score(info, indexMaxPenetration, k) ==
    IF k = indexMaxPenetration THEN 0 ELSE TrueAreas(info)[k]

\* C16: on a full cache, whatever the new point and the index left out,
\* getIndexToRemove returns an index of 0..3 whose score is maximal among
\* the four scores, the score of the index left out being 0.
C16_IndexToRemoveIsArgmax ==
    nbContacts = MAX_CONTACTS_IN_CACHE =>
        \A info \in ContactInfos, indexMaxPenetration \in {-1} \cup Slots :
            LET k == getIndexToRemove(Entry, indexMaxPenetration, info.localPoint1)
            IN  /\ k \in Slots
                /\ \A j \in Slots :
                       Score(info, indexMaxPenetration, j)
                           <= Score(info, indexMaxPenetration, k)

\* A cache an eviction left full, to which a contact can be added for which
\* the area of the deepest contact is the greatest of the four and the
\* other three areas differ.
C16_Witness ==
    /\ last.op = "addContact"
    /\ nbContacts = MAX_CONTACTS_IN_CACHE
    /\ ReleasedBlocks # {} /\ released[last.contact] = 0
    /\ \E info \in ContactInfos :
           LET indexMaxPenetration == getIndexOfDeepestPenetration(Built(info), NewBlock)
           IN  /\ ~IsDuplicate(info)
               /\ indexMaxPenetration \in Slots
               /\ \A j \in Slots \ {indexMaxPenetration} :
                      TrueAreas(info)[j] < TrueAreas(info)[indexMaxPenetration]
               /\ \E i, j \in Slots \ {indexMaxPenetration} :
                      TrueAreas(info)[i] < TrueAreas(info)[j]

\* C17: addContact on a full cache, given a contact whose point on body 1
\* is within the tolerance of that of a live contact, evicts nothing: the
\* new contact is the only one released, and the four contacts of the cache
\* stay in their slots as they were.
C17_DedupBeforeEviction ==
    [][\A info \in ContactInfos :
          ( /\ nbContacts = MAX_CONTACTS_IN_CACHE
            /\ IsDuplicate(info)
            /\ AddContact(info) )
          => /\ \A i \in LiveSlots : released'[contacts[i]] = 0
             /\ released'[NewBlock] = 1
             /\ nbContacts' = MAX_CONTACTS_IN_CACHE
             /\ \A i \in Slots : /\ contacts'[i] = contacts[i]
                                  /\ pool'[contacts'[i]] = Live(i)]_vars

\* A duplicate was handed to a full cache: it was released and the cache is
\* still full.
C17_Witness ==
    /\ last.op = "addContact"
    /\ nbContacts = MAX_CONTACTS_IN_CACHE
    /\ released = [NoneReleased EXCEPT ![last.contact] = 1]

\* The slot addContact evicts from a full cache for the contact info
\* describes.
IndexToRemove(info) ==
    getIndexToRemove(Built(info),
                     getIndexOfDeepestPenetration(Built(info), NewBlock),
                     info.localPoint1)

\* C18: addContact given a contact that duplicates no live one stores it: in
\* a cache of n < 4 contacts at slot n, slots 0..n-1 being left as they were,
\* nbContacts becoming n + 1 and nothing being released; in a full cache at
\* the slot getIndexToRemove returned, nbContacts being 4 again.
C18_NewContactIsStored ==
    [][\A info \in ContactInfos :
          (~IsDuplicate(info) /\ AddContact(info))
          => IF nbContacts < MAX_CONTACTS_IN_CACHE
             THEN /\ nbContacts' = nbContacts + 1
                  /\ released' = NoneReleased
                  /\ pool'[contacts'[nbContacts]] = NewContact(info)
                  /\ \A i \in LiveSlots : /\ contacts'[i] = contacts[i]
                                           /\ pool'[contacts'[i]] = Live(i)
             ELSE /\ nbContacts' = MAX_CONTACTS_IN_CACHE
                  /\ released'[NewBlock] = 0
                  /\ released'[contacts[IndexToRemove(info)]] = 1
                  /\ pool'[contacts'[IndexToRemove(info)]] = NewContact(info)]_vars

\* A contact was added to a full cache whose contacts an update had
\* refreshed: it is in the slot of the contact released for it, the only
\* one whose world points are unset.
C18_Witness ==
    /\ last.op = "addContact"
    /\ nbContacts = MAX_CONTACTS_IN_CACHE
    /\ released[last.contact] = 0
    /\ \E k \in Slots :
           /\ released = [NoneReleased EXCEPT ![contacts[k]] = 1]
           /\ Live(k).worldPointOnBody2 = Unset
           /\ \A j \in Slots \ {k} : Live(j).worldPointOnBody2 # Unset

\* The blocks of the contacts of the cache.
LiveBlocks == { contacts[i] : i \in LiveSlots }

\* The accounting of one call for the contacts in the blocks of handed, mem
\* being the memory the call was entered with: the call released contacts
\* of handed only; those it did not release are, one for one, the contacts
\* the live slots point to afterwards, none of which is in a released block.
Accounted(handed, mem) ==
    LET kept == { b \in handed : released'[b] = 0 }
        liveAfter == { i \in Slots : i < nbContacts' }
    IN  /\ \A b \in Blocks : released'[b] > 0 => b \in handed
        /\ Cardinality(kept) = nbContacts'
        /\ \A i \in liveAfter : pool'[contacts'[i]] # FreeBlock
        /\ { ConstFields(pool'[contacts'[i]]) : i \in liveAfter }
               = { ConstFields(mem[b]) : b \in kept }
        /\ Cardinality({ ConstFields(mem[b]) : b \in kept }) = nbContacts'

\* C19: whatever addContact, update and clear calls are made, and when the
\* cache is destroyed, no call releases a contact twice or one that is not
\* in use; each contact the cache held or was handed is afterwards either
\* released, once, and pointed to by no live slot, or not released and
\* pointed to by exactly one live slot; and the destruction of the cache
\* releases every contact it held.
C19_EveryContactAccounted ==
    [][/\ poolOk'
       /\ \A b \in Blocks : released'[b] <= 1
       /\ last'.op \in {"update", "clear", "delete"} => Accounted(LiveBlocks, pool)
       /\ \A info \in ContactInfos :
              AddContact(info) => Accounted(LiveBlocks \cup {NewBlock}, Built(info).pool)
       /\ last'.op = "delete"
              => /\ nbContacts' = 0
                 /\ \A b \in LiveBlocks : released'[b] = 1]_vars

\* A full cache was destroyed: its four contacts were released.
C19_Witness ==
    /\ last.op = "delete"
    /\ nbContacts = 0
    /\ Cardinality(ReleasedBlocks) = MAX_CONTACTS_IN_CACHE
    /\ FreeBlocks(State) = Blocks

\* C20: when addContact evicts slot k of a full cache, removeContact(k)
\* copies the pointer of slot 3 into slot k, if k < 3, and leaves
\* nbContacts = 3; once addContact has returned, the contacts of the three
\* other slots are in the slots they were in, every field as it was, the
\* one of slot 3 included when k < 3, and nbContacts = 4.
C20_EvictionFrame ==
    [][\A info \in ContactInfos :
          ( /\ nbContacts = MAX_CONTACTS_IN_CACHE
            /\ ~IsDuplicate(info)
            /\ AddContact(info) )
          => LET k == IndexToRemove(info)
                 room == removeContact(Built(info), k)
             IN  /\ room.nbContacts = MAX_CONTACTS_IN_CACHE - 1
                 /\ k < MAX_CONTACTS_IN_CACHE - 1
                        => room.contacts[k] = contacts[MAX_CONTACTS_IN_CACHE - 1]
                 /\ released' = [NoneReleased EXCEPT ![contacts[k]] = 1]
                 /\ nbContacts' = MAX_CONTACTS_IN_CACHE
                 /\ \A j \in Slots \ {k} : pool'[contacts'[j]] = Live(j)]_vars

\* The contact of slot 0 of a full cache was evicted for a new one: the
\* contacts of slots 1..3 had been refreshed by an update, the one now in
\* slot 0 has not.
C20_Witness ==
    /\ last.op = "addContact"
    /\ nbContacts = MAX_CONTACTS_IN_CACHE
    /\ released = [NoneReleased EXCEPT ![contacts[0]] = 1]
    /\ Live(0).worldPointOnBody2 = Unset
    /\ \A j \in Slots \ {0} : Live(j).worldPointOnBody2 # Unset

\* The squared distance, in the plane orthogonal to the normal, between the
\* two points of c under the poses given.
RecomputedSeparation(c, transform1, transform2) ==
    LET w1 == Apply(transform1, c.localPointOnBody1)
        w2 == Apply(transform2, c.localPointOnBody2)
        onPlane == VSub(w1, VScale(c.normal, RecomputedDepth(c, transform1, transform2)))
    IN  LengthSquare(VSub(w2, onPlane))

\* C21: update(transform1, transform2) keeps a contact of the cache if and
\* only if its recomputed depth is > 0 and its recomputed squared separation
\* in the plane orthogonal to the normal is no more than the square of
\* PERSISTENT_CONTACT_DIST_THRESHOLD; it releases no contact twice, the
\* contacts of the cache afterwards are those it kept and no other, and on
\* an empty cache it changes nothing.
C21_UpdateKeepsExactlyTheFresh ==
    [][last'.op = "update"
       => LET fresh == { i \in LiveSlots :
                            /\ RecomputedDepth(Live(i), last'.transform1,
                                               last'.transform2) > 0
                            /\ RecomputedSeparation(Live(i), last'.transform1,
                                                    last'.transform2)
                                   <= PERSISTENT_CONTACT_DIST_THRESHOLD
                                          * PERSISTENT_CONTACT_DIST_THRESHOLD }
              liveAfter == { i \in Slots : i < nbContacts' }
          IN  /\ \A i \in LiveSlots :
                     released'[contacts[i]] = IF i \in fresh THEN 0 ELSE 1
              /\ \A b \in Blocks \ LiveBlocks : released'[b] = 0
              /\ nbContacts' = Cardinality(fresh)
              /\ { ConstFields(pool'[contacts'[i]]) : i \in liveAfter }
                     = { ConstFields(Live(i)) : i \in fresh }
              /\ nbContacts = 0
                     => /\ nbContacts' = 0
                        /\ contacts' = contacts
                        /\ pool' = pool
                        /\ poolOk' = poolOk
                        /\ assertOk' = assertOk]_vars

\* An update with body 2 withdrawn by two units removed the contacts of
\* slots 0 and 1 and kept contacts of later slots, which the removals moved
\* into their places.
C21_Witness ==
    /\ last.op = "update"
    /\ last.transform2.position = <<0, 0, 2>>
    /\ released[1] = 1
    /\ released[2] = 1
    /\ nbContacts >= 1
    /\ Cardinality(ReleasedBlocks) + nbContacts = MAX_CONTACTS_IN_CACHE

\* C22: whatever addContact, update and clear calls are made, no assert of
\* the code has failed: removeContact was only entered with
\* 0 <= index < nbContacts and nbContacts > 0, the index of update's second
\* loop was a live slot at each iteration, and getIndexOfDeepestPenetration
\* and getIndexToRemove were only entered with a full cache.
C22_AssertionsHold ==
    assertOk

\* Contacts an update had tested and kept are in a full cache from which
\* addContact evicted one contact for a new one: the asserts of update's
\* loop, of getIndexOfDeepestPenetration, of getIndexToRemove and of
\* removeContact were reached and held.
C22_Witness ==
    /\ assertOk
    /\ last.op = "addContact"
    /\ nbContacts = MAX_CONTACTS_IN_CACHE
    /\ released[last.contact] = 0
    /\ Cardinality(ReleasedBlocks) = 1
    /\ Cardinality({ i \in LiveSlots : Live(i).worldPointOnBody1 # Unset }) >= 2

====
